---------------------------- MODULE Spec2Model ----------------------------
(***************************************************************************)
(* Solver plugins of pants (src/pants/plugins.py, src/pants/cli.py).       *)
(*                                                                         *)
(* The graph is the sequence of its edges in iteration order               *)
(* (state.graph.edges): ph[i] is the pheromone of edge i and weight[i] its *)
(* weight.  Levels are integers (units of pheromone); a quotient is kept   *)
(* as the pair of its numerator and denominator.                           *)
(***************************************************************************)
EXTENDS Integers, Sequences, FiniteSets, TLC

(* ------------------------------ bounds -------------------------------- *)
MaxEdges == 3
MaxLevel == 3
MaxPeriod == 3
NegPeriods == 2
MaxIterations == 7
MaxQ == 2
MaxFactor == 2
NegFactors == 1
MaxEliteCalls == 2
MaxAnts == 2
MaxStatCalls == 2
MaxColony == 1
MaxParam == 2
MaxSigma == 1
MaxDarwinCalls == 2
MaxLimit == 11
MaxPrintCalls == 4

VARIABLES
    ph,        \* graph: pheromone of every edge, in edge order
    weight,    \* graph: weight of every edge, in edge order
    kind,      \* periodic plugin: its class
    period,    \* periodic plugin: self.period
    index,     \* periodic plugin: self.index, <<>> for None, <<i>> for i
    q,         \* solver: self.solver.q
    factor,    \* EliteTracer: self.factor
    qBound,    \* history: solver.q when the plugins were bound
    stats,     \* StatRecorder: self.stats, metric name -> recorded series
    seen,      \* StatRecorder: self.data['solutions']
    preStats,  \* history: stats before the last hook call
    preSeen,   \* history: seen before the last hook call
    sigma,     \* DarwinPlugin: self.sigma
    dAlpha,    \* DarwinPlugin: self.alpha, <<>> while unset
    dBeta,     \* DarwinPlugin: self.beta, <<>> while unset
    ants,      \* state.ants: alpha and beta of every ant
    pIteration, \* PrintoutPlugin: self.iteration, <<>> while unset
    pBestCount, \* PrintoutPlugin: self.best_count, <<>> while unset
    pWidth,    \* PrintoutPlugin: self.width, <<>> while unset or None
    output,    \* console: the lines printed since initialize, each with its end
    history,   \* history: the on_iteration calls of PrintoutPlugin since initialize
    extraAttrs, \* StatRecorder subclass: the extractors and processors it adds
    calls,     \* history: on_iteration calls since initialize
    firedAt,   \* history: the calls (1-based) during which action was invoked
    last,      \* history: the last hook call and its outcome
    last2,     \* history: the periodic plugin's hook call before its last
    pre,       \* history: ph before the last hook call
    pre2       \* history: ph before the periodic plugin's call before its last

vars == <<ph, weight, kind, period, index, q, factor, qBound, stats, seen,
          preStats, preSeen, sigma, dAlpha, dBeta, ants, pIteration,
          pBestCount, pWidth, output, history, extraAttrs, calls, firedAt,
          last, last2, pre, pre2>>

statVars == <<stats, seen, preStats, preSeen>>

graphVars == <<ph, weight>>

periodicVars == <<kind, period, index, firedAt, last2, pre2>>

eliteVars == <<q, factor, qBound>>

darwinVars == <<sigma, dAlpha, dBeta, ants>>

printoutVars == <<pIteration, pBestCount, pWidth, output, history>>

(* ------------------------------ helpers ------------------------------- *)
Range(s) == {s[i] : i \in 1..Len(s)}

SeqsUpTo(S, n) == UNION {[1..k -> S] : k \in 0..n}

\* Python's a % b for b # 0: the result has the sign of b
PyMod(a, b) == IF b > 0 THEN a % b ELSE 0 - ((0 - a) % (0 - b))

Kinds == {"PeriodicActionPlugin", "PeriodicReset", "PheromoneFlip"}

Periods == (0 - NegPeriods)..MaxPeriod

None == <<>>

\* collections.defaultdict(list) with no key yet
NoStats == [k \in {} |-> <<>>]

\* the plugins and the colony a run does not use
OthersIdle ==
    /\ sigma = 0
    /\ dAlpha = None
    /\ dBeta = None
    /\ ants = <<>>
    /\ pIteration = None
    /\ pBestCount = None
    /\ pWidth = None
    /\ output = <<>>
    /\ history = <<>>
    /\ extraAttrs = {}

NoCall == [op |-> "none", raised |-> FALSE, fired |-> FALSE]

(* ----------------------- PeriodicActionPlugin -------------------------- *)
\* self.index = (self.index + 1) % self.period
NextIndex_late(i, p) == PyMod(i, p) + 1
NextIndex_nomod(i, p) == i + 1
NextIndex(i, p) == PyMod(i + 1, p)

\* if not self.index
Fires(i) == i = 0

\* PeriodicReset.action: every edge's pheromone becomes 1
PeriodicReset_skip(levels) ==
    [i \in 1..Len(levels) |-> IF i = Len(levels) THEN levels[i] ELSE 1]
PeriodicReset_action(levels) == [i \in 1..Len(levels) |-> 1]

\* PheromoneFlip.action: edge i receives the level of edge n + 1 - i
PheromoneFlip_short(levels) ==
    [i \in 1..Len(levels) |->
        IF i = Len(levels) THEN levels[1] ELSE levels[Len(levels) - i]]
PheromoneFlip_rotate(levels) ==
    [i \in 1..Len(levels) |-> levels[(i % Len(levels)) + 1]]
PheromoneFlip_action(levels) ==
    [i \in 1..Len(levels) |-> levels[Len(levels) + 1 - i]]

\* zip(*data) of no edges cannot be unpacked into levels, edges
PheromoneFlip_raises(levels) == Len(levels) = 0

\* self.action(state) of the plugin's class
ActionRaises(k, levels) == k = "PheromoneFlip" /\ PheromoneFlip_raises(levels)

ActionResult(k, levels) ==
    CASE k = "PeriodicReset" -> PeriodicReset_action(levels)
      [] k = "PheromoneFlip" ->
            IF PheromoneFlip_raises(levels) THEN levels
            ELSE PheromoneFlip_action(levels)
      [] OTHER -> levels

\* PeriodicActionPlugin.initialize
Initialize ==
    /\ index' = <<0>>
    /\ calls' = 0
    /\ firedAt' = {}
    /\ last' = [op |-> "initialize", raised |-> FALSE, fired |-> FALSE]
    /\ pre' = ph
    /\ pre2' = pre
    /\ last2' = last
    /\ UNCHANGED <<ph, weight, kind, period, q, factor, qBound, statVars,
                   darwinVars, printoutVars, extraAttrs>>

\* PeriodicActionPlugin.on_iteration
PeriodicOnIteration ==
    /\ calls < MaxIterations
    /\ pre' = ph
    /\ pre2' = pre
    /\ last2' = last
    /\ IF index = None \/ period = 0
       THEN \* None + 1, or a modulo by zero: the call raises at once
            /\ last' = [op |-> "on_iteration", raised |-> TRUE, fired |-> FALSE,
                        error |-> IF index = None THEN "TypeError"
                                  ELSE "ZeroDivisionError"]
            /\ UNCHANGED <<ph, index, calls, firedAt>>
       ELSE LET i == NextIndex(index[1], period) IN
            /\ index' = <<i>>
            /\ calls' = calls + 1
            /\ IF Fires(i)
               THEN /\ firedAt' = firedAt \cup {calls + 1}
                    /\ ph' = ActionResult(kind, ph)
                    /\ last' = [op |-> "on_iteration",
                                raised |-> ActionRaises(kind, ph),
                                fired |-> TRUE, error |-> "ValueError"]
               ELSE /\ UNCHANGED <<firedAt, ph>>
                    /\ last' = [op |-> "on_iteration", raised |-> FALSE,
                                fired |-> FALSE]
    /\ UNCHANGED <<weight, kind, period, q, factor, qBound, statVars,
                   darwinVars, printoutVars, extraAttrs>>

Graphs == SeqsUpTo(1..MaxLevel, MaxEdges)

InitPeriodic ==
    /\ ph \in Graphs
    /\ weight = [i \in 1..Len(ph) |-> 1]
    /\ kind \in Kinds
    /\ period \in Periods
    /\ index = None
    /\ q = 1
    /\ factor = 1
    /\ qBound = q
    /\ stats = NoStats
    /\ seen = {}
    /\ preStats = NoStats
    /\ preSeen = {}
    /\ OthersIdle
    /\ calls = 0
    /\ firedAt = {}
    /\ last = NoCall
    /\ last2 = NoCall
    /\ pre = ph
    /\ pre2 = ph

NextPeriodic == Initialize \/ PeriodicOnIteration

SpecPeriodic == InitPeriodic /\ [][NextPeriodic]_vars

(* ------------------------- claims: periodic --------------------------- *)
Ascending(s) == SortSeq(s, LAMBDA a, b : a < b)

Distinct(s) == \A i, j \in 1..Len(s) : i # j => s[i] # s[j]

\* rank of edge i by level, ties broken by edge order (1 = lowest)
Rank(levels, i) ==
    1 + Cardinality({j \in 1..Len(levels) :
                        \/ levels[j] < levels[i]
                        \/ levels[j] = levels[i] /\ j < i})

FlipDone(c) == kind = "PheromoneFlip" /\ c.fired /\ ~c.raised

\* C1: with period p >= 1, after initialize the action is invoked during
\* the k-th on_iteration call exactly when k is a multiple of p.
C1_FiresOnMultiples ==
    (period >= 1 /\ index # None) =>
        firedAt = {k \in 1..calls : k % period = 0}

C1_Witness == period = 3 /\ calls = 7 /\ firedAt = {3, 6}

\* C2: after PeriodicReset.action every edge's pheromone is 1 and the edges
\* are the ones the graph had before.
C2_ResetAllOne ==
    (kind = "PeriodicReset" /\ last.fired) =>
        /\ DOMAIN ph = DOMAIN pre
        /\ \A i \in DOMAIN ph : ph[i] = 1

C2_Witness ==
    /\ kind = "PeriodicReset" /\ last.fired
    /\ Len(pre) = 3 /\ \A i \in 1..3 : pre[i] > 1

\* C3: PheromoneFlip.action on a graph with at least one edge keeps the
\* sorted list of pheromone levels, and the edges.
C3_FlipKeepsLevels ==
    (FlipDone(last) /\ Len(pre) >= 1) =>
        /\ DOMAIN ph = DOMAIN pre
        /\ Ascending(ph) = Ascending(pre)

C3_Witness == FlipDone(last) /\ Len(pre) = 3 /\ ph # pre

\* C4: PheromoneFlip.action gives the edge of rank i (by level, ties by edge
\* order) the level of the edge of rank n + 1 - i.
C4_FlipByRank ==
    FlipDone(last) =>
        \A i, j \in 1..Len(pre) :
            Rank(pre, i) + Rank(pre, j) = Len(pre) + 1 => ph[i] = pre[j]

\* C5: two PheromoneFlip.action calls in a row on pairwise distinct levels
\* give every edge the level it had before the first.
C5_FlipTwice ==
    (FlipDone(last) /\ FlipDone(last2) /\ Distinct(pre2)) => ph = pre2

C5_Witness ==
    /\ FlipDone(last) /\ FlipDone(last2)
    /\ Len(pre2) = 3 /\ Distinct(pre2) /\ ph # pre

\* C14: a plugin with a non-positive period is rejected when it is built,
\* so none is ever bound and no on_iteration call runs with period <= 0.
C14_PeriodPositive ==
    (index # None \/ last.op = "on_iteration") => period >= 1

\* C20: with period p >= 1, once initialize has run, 0 <= index < p and
\* index is the number of on_iteration calls since initialize modulo p;
\* initialize sets index to 0.
C20_IndexInRange ==
    /\ (period >= 1 /\ index # None) =>
            /\ 0 <= index[1] /\ index[1] < period
            /\ index[1] = calls % period
    /\ last.op = "initialize" => index = <<0>>

C20_Witness ==
    /\ period = 3 /\ calls = 0 /\ index = <<0>>
    /\ last.op = "initialize" /\ last2.op = "on_iteration" /\ ~last2.raised

(* ----------------------------- Solution -------------------------------- *)
\* a completed tour: the edges it traverses and the sum of their weights
SumOver(f, S) ==
    LET RECURSIVE Sum(_)
        Sum(T) == IF T = {} THEN 0
                  ELSE LET x == CHOOSE x \in T : TRUE IN f[x] + Sum(T \ {x})
    IN Sum(S)

Solution(path, weights) == [path |-> path, weight |-> SumOver(weights, path)]

Tours(weights) == {Solution(p, weights) : p \in SUBSET (1..Len(weights))}

\* Solution.trace(amount): amount more pheromone on every edge of the tour
Solution_trace(levels, sol, amount) ==
    [i \in 1..Len(levels) |->
        IF i \in sol.path THEN levels[i] + amount ELSE levels[i]]

(* ---------------------------- EliteTracer ------------------------------ *)
\* self.solver.q * self.factor
EliteAmount_nofactor(sq, f) == sq
EliteAmount_cached(sq, f) == qBound * f
EliteAmount(sq, f) == sq * f

\* EliteTracer.on_iteration
EliteOnIteration ==
    /\ calls < MaxEliteCalls
    /\ \E best \in Tours(weight) :
        /\ ph' = Solution_trace(ph, best, EliteAmount(q, factor))
        /\ last' = [op |-> "elite", raised |-> FALSE, fired |-> FALSE,
                    best |-> best, amount |-> EliteAmount(q, factor)]
    /\ calls' = calls + 1
    /\ pre' = ph
    /\ UNCHANGED <<weight, kind, period, index, q, factor, qBound, firedAt,
                   last2, pre2, statVars, darwinVars, printoutVars,
                   extraAttrs>>

\* the solver's q is set anew between two hook calls
SetQ ==
    /\ \E v \in 0..MaxQ : v # q /\ q' = v
    /\ last' = [op |-> "set_q", raised |-> FALSE, fired |-> FALSE]
    /\ pre' = ph
    /\ UNCHANGED <<ph, weight, kind, period, index, factor, qBound, calls,
                   firedAt, last2, pre2, statVars, darwinVars, printoutVars,
                   extraAttrs>>

Factors == (0 - NegFactors)..MaxFactor

\* the weights of the three-node graph {A-B: 1, B-C: 1, A-C: 2}; every
\* further edge weighs 1
ScenarioWeights == <<1, 1, 2>>

GraphWeights(n) ==
    [i \in 1..n |-> IF i <= Len(ScenarioWeights) THEN ScenarioWeights[i] ELSE 1]

InitElite ==
    /\ ph \in {[i \in 1..n |-> 1] : n \in 0..MaxEdges}
    /\ weight = GraphWeights(Len(ph))
    /\ kind = "PeriodicActionPlugin"
    /\ period = 1
    /\ index = None
    /\ q \in 0..MaxQ
    /\ factor \in Factors
    /\ qBound = q
    /\ stats = NoStats
    /\ seen = {}
    /\ preStats = NoStats
    /\ preSeen = {}
    /\ OthersIdle
    /\ calls = 0
    /\ firedAt = {}
    /\ last = NoCall
    /\ last2 = NoCall
    /\ pre = ph
    /\ pre2 = ph

NextElite == EliteOnIteration \/ SetQ

SpecElite == InitElite /\ [][NextElite]_vars

(* --------------------------- claims: elite ----------------------------- *)
\* C6: one EliteTracer.on_iteration call adds q * factor to the pheromone of
\* every edge of state.best's tour and leaves every other edge as it was.
C6_EliteDeposit ==
    last.op = "elite" =>
        /\ DOMAIN ph = DOMAIN pre
        /\ \A i \in DOMAIN ph :
            ph[i] = pre[i] + (IF i \in last.best.path THEN q * factor ELSE 0)

C6_Witness ==
    /\ last.op = "elite" /\ Len(ph) = 3 /\ weight = <<1, 1, 2>>
    /\ last.best.path = {1, 2} /\ q = 1 /\ factor = 2
    /\ ph[1] = pre[1] + 2 /\ ph[2] = pre[2] + 2 /\ ph[3] = pre[3]

\* C7: the amount EliteTracer.on_iteration deposits is the solver's q at the
\* time of the call times factor, whatever q was before.
C7_EliteReadsQ == last.op = "elite" => last.amount = q * factor

C7_Witness ==
    /\ last.op = "elite" /\ calls = 2
    /\ q # qBound /\ factor # 0 /\ last.amount = q * factor

\* C15: from a graph whose every edge has pheromone > 0, every edge still
\* has pheromone > 0 after any sequence of plugin hook calls, and every edge
\* weight is what it was.
C15_PheromonePositive ==
    /\ \A i \in DOMAIN ph : ph[i] > 0
    /\ weight = GraphWeights(Len(ph))

(* ---------------------------- StatRecorder ----------------------------- *)
Some(x) == <<x>>

\* sum(levels), min(levels), max(levels) of a non-empty list
SeqSum(s) == SumOver(s, DOMAIN s)

SeqMin(s) == CHOOSE x \in Range(s) : \A y \in Range(s) : x <= y

SeqMax(s) == CHOOSE x \in Range(s) : \A y \in Range(s) : x >= y

\* a / b, kept as the pair of its terms
Quotient(a, b) == [num |-> a, den |-> b]

\* the 'edge_pheromone' entry of a snapshot
EdgePheromone(levels) ==
    [min |-> SeqMin(levels), max |-> SeqMax(levels),
     avg |-> Quotient(SeqSum(levels), Len(levels))]

\* [solution.weight for solution in state.solutions]
Distances(sols) == [i \in 1..Len(sols) |-> sols[i].weight]

\* solutions_seen.update(solutions)
SeenUpdate(old, sols) == old \cup Range(sols)

\* num_new_solutions = len(solutions_seen) - old_count
NumNew_iteration(old, new, sols) == Cardinality(Range(sols))
NumNew(old, new, sols) == Cardinality(new) - Cardinality(old)

\* the stats dictionary on_start builds
StartSnapshot_zero(levels, seenSet) ==
    [pheromone_levels |-> levels,
     total_pheromone |-> SeqSum(levels),
     edge_pheromone |-> EdgePheromone(levels),
     solutions |-> [best |-> None, worst |-> None, avg |-> None,
                    global_best |-> None],
     unique_solutions |-> [total |-> 0, iteration |-> 0, new |-> 0]]
StartSnapshot(levels, seenSet) ==
    [pheromone_levels |-> levels,
     total_pheromone |-> SeqSum(levels),
     edge_pheromone |-> EdgePheromone(levels),
     solutions |-> [best |-> None, worst |-> None, avg |-> None,
                    global_best |-> None],
     unique_solutions |-> [total |-> Cardinality(seenSet),
                           iteration |-> 0, new |-> 0]]

\* the stats dictionary on_iteration builds; num_ants is len(set(solutions))
IterationSnapshot(levels, sols, best, old, new) ==
    [pheromone_levels |-> levels,
     total_pheromone |-> SeqSum(levels),
     edge_pheromone |-> EdgePheromone(levels),
     solutions |-> [best |-> Some(SeqMin(Distances(sols))),
                    worst |-> Some(SeqMax(Distances(sols))),
                    avg |-> Some(Quotient(SeqSum(Distances(sols)),
                                          Cardinality(Range(sols)))),
                    global_best |-> Some(best.weight)],
     unique_solutions |-> [total |-> Cardinality(new),
                           iteration |-> Cardinality(Range(sols)),
                           new |-> NumNew(old, new, sols)]]

\* self.stats[stat] of a defaultdict(list)
Series(st, stat) == IF stat \in DOMAIN st THEN st[stat] ELSE <<>>

\* StatRecorder.pump
Pump_overwrite(st, snapshot) ==
    [stat \in DOMAIN st \cup DOMAIN snapshot |->
        IF stat \in DOMAIN snapshot THEN <<snapshot[stat]>> ELSE st[stat]]
Pump(st, snapshot) ==
    [stat \in DOMAIN st \cup DOMAIN snapshot |->
        IF stat \in DOMAIN snapshot
        THEN Append(Series(st, stat), snapshot[stat])
        ELSE st[stat]]

\* StatRecorder.on_start(state); min(levels) of no edges raises
StatOnStart ==
    /\ calls < MaxStatCalls
    /\ calls' = calls + 1
    /\ pre' = ph
    /\ preStats' = stats
    /\ preSeen' = seen
    /\ IF Len(ph) = 0
       THEN /\ last' = [op |-> "on_start", raised |-> TRUE, fired |-> FALSE,
                        error |-> "ValueError"]
            /\ UNCHANGED stats
       ELSE /\ last' = [op |-> "on_start", raised |-> FALSE, fired |-> FALSE]
            /\ stats' = Pump(stats, StartSnapshot(ph, seen))
    /\ UNCHANGED <<ph, weight, kind, period, index, q, factor, qBound, seen,
                   firedAt, last2, pre2, darwinVars, printoutVars,
                   extraAttrs>>

\* StatRecorder.on_iteration(state, is_new_best); the seen set is updated
\* before min(levels) or min(distances) can raise
StatOnIteration(sols, best) ==
    /\ calls < MaxStatCalls
    /\ calls' = calls + 1
    /\ pre' = ph
    /\ preStats' = stats
    /\ preSeen' = seen
    /\ seen' = SeenUpdate(seen, sols)
    /\ IF Len(ph) = 0 \/ Len(sols) = 0
       THEN /\ last' = [op |-> "stat_iteration", raised |-> TRUE,
                        fired |-> FALSE, solutions |-> sols, best |-> best,
                        error |-> "ValueError"]
            /\ UNCHANGED stats
       ELSE /\ last' = [op |-> "stat_iteration", raised |-> FALSE,
                        fired |-> FALSE, solutions |-> sols, best |-> best]
            /\ stats' = Pump(stats, IterationSnapshot(ph, sols, best, seen,
                                                      SeenUpdate(seen, sols)))
    /\ UNCHANGED <<ph, weight, kind, period, index, q, factor, qBound,
                   firedAt, last2, pre2, darwinVars, printoutVars,
                   extraAttrs>>

\* the tours of the graph's nodes, the graph being a path of up to two edges
\* or a cycle of three or more: a tour visits every node once, so it takes
\* every edge of the path, or all but one of the cycle
NodeTours(weights) ==
    {t \in Tours(weights) :
        Cardinality(t.path) =
            IF Len(weights) <= 2 THEN Len(weights) ELSE Len(weights) - 1}

\* state.solutions and state.best of one iteration: best weighs no more than
\* any solution of the population
Populations(weights) ==
    {s \in [solutions : SeqsUpTo(NodeTours(weights), MaxAnts),
            best : NodeTours(weights)] :
        \A i \in 1..Len(s.solutions) : s.best.weight <= s.solutions[i].weight}

PopulationsFor ==
    [w \in {GraphWeights(n) : n \in 0..MaxEdges} |-> Populations(w)]

InitStats ==
    /\ ph \in {<<>>, <<1, 2, 3>>}
    /\ weight = GraphWeights(Len(ph))
    /\ kind = "PeriodicActionPlugin"
    /\ period = 1
    /\ index = None
    /\ q = 1
    /\ factor = 1
    /\ qBound = q
    /\ stats = NoStats
    /\ seen = {}
    /\ preStats = NoStats
    /\ preSeen = {}
    /\ OthersIdle
    /\ calls = 0
    /\ firedAt = {}
    /\ last = NoCall
    /\ last2 = NoCall
    /\ pre = ph
    /\ pre2 = ph

NextStats ==
    \/ StatOnStart
    \/ \E s \in PopulationsFor[weight] : StatOnIteration(s.solutions, s.best)

SpecStats == InitStats /\ [][NextStats]_vars

\* a colony of one ant, whose tour is the best so far
SinglePopulations(weights) ==
    {s \in Populations(weights) :
        Len(s.solutions) = 1 /\ s.best = s.solutions[1]}

InitStart ==
    /\ ph \in Graphs
    /\ weight = GraphWeights(Len(ph))
    /\ kind = "PeriodicActionPlugin"
    /\ period = 1
    /\ index = None
    /\ q = 1
    /\ factor = 1
    /\ qBound = q
    /\ stats = NoStats
    /\ seen = {}
    /\ preStats = NoStats
    /\ preSeen = {}
    /\ OthersIdle
    /\ calls = 0
    /\ firedAt = {}
    /\ last = NoCall
    /\ last2 = NoCall
    /\ pre = ph
    /\ pre2 = ph

NextStart ==
    \/ StatOnStart
    \/ \E s \in SinglePopulations(weight) :
            StatOnIteration(s.solutions, s.best)

SpecStart == InitStart /\ [][NextStart]_vars

(* ------------------------ claims: StatRecorder ------------------------- *)
Metrics == {"pheromone_levels", "total_pheromone", "edge_pheromone",
            "solutions", "unique_solutions"}

\* the value the last successful hook call recorded for a metric
Recorded(stat) == stats[stat][Len(stats[stat])]

Succeeded(op) == last.op = op /\ ~last.raised

\* C8: the seen set never loses an element, and an on_iteration call records
\* as 'new' the growth of the seen set during the call and as 'total' its
\* size after the call.
C8_SeenGrows ==
    /\ preSeen \subseteq seen
    /\ Cardinality(preSeen) <= Cardinality(seen)
    /\ Succeeded("stat_iteration") =>
        /\ Recorded("unique_solutions").new =
                Cardinality(seen) - Cardinality(preSeen)
        /\ Recorded("unique_solutions").total = Cardinality(seen)

C8_Witness ==
    /\ Succeeded("stat_iteration")
    /\ preSeen # {}
    /\ Recorded("unique_solutions").new = 1
    /\ Recorded("unique_solutions").iteration = 2

\* C9: a successful on_start or on_iteration call appends one value to the
\* series of each of the five metrics and changes no earlier entry, so all
\* series have the same length.
C9_AppendOnly ==
    /\ \A m \in DOMAIN stats : \A k \in DOMAIN stats :
            Len(stats[m]) = Len(stats[k])
    /\ (Succeeded("on_start") \/ Succeeded("stat_iteration")) =>
        \A m \in Metrics :
            /\ m \in DOMAIN stats
            /\ Len(stats[m]) = Len(Series(preStats, m)) + 1
            /\ SubSeq(stats[m], 1, Len(stats[m]) - 1) = Series(preStats, m)

C9_Witness ==
    /\ Succeeded("stat_iteration")
    /\ calls = 2
    /\ \A m \in Metrics : m \in DOMAIN stats /\ Len(stats[m]) = 2
    /\ stats["solutions"][1].best = None

\* the edge_pheromone entry holds the minimum, maximum and mean of levels
IsSummaryOf(e, levels) ==
    /\ e.min \in Range(levels) /\ \A i \in DOMAIN levels : e.min <= levels[i]
    /\ e.max \in Range(levels) /\ \A i \in DOMAIN levels : e.max >= levels[i]
    /\ e.avg.den # 0
    /\ e.avg.num * Len(levels) = SeqSum(levels) * e.avg.den

NoSolutions ==
    [best |-> None, worst |-> None, avg |-> None, global_best |-> None]

\* C10 as stated: every on_start call on a graph with an edge records the
\* minimum, maximum and mean level, no solution figure, and zero for each of
\* the unique-solution counters total, iteration and new.
C10_StartCountersZero ==
    Succeeded("on_start") =>
        /\ IsSummaryOf(Recorded("edge_pheromone"), pre)
        /\ Recorded("solutions") = NoSolutions
        /\ Recorded("unique_solutions") =
                [total |-> 0, iteration |-> 0, new |-> 0]

\* C10 amended: as above, but the recorded total is the size of the seen set
\* at the time of the call (zero only while the seen set is empty).
C10_StartSnapshot ==
    Succeeded("on_start") =>
        /\ IsSummaryOf(Recorded("edge_pheromone"), pre)
        /\ Recorded("solutions") = NoSolutions
        /\ Recorded("unique_solutions") =
                [total |-> Cardinality(seen), iteration |-> 0, new |-> 0]

C10_Witness ==
    /\ Succeeded("on_start")
    /\ pre = <<1, 2, 3>>
    /\ Recorded("edge_pheromone") =
            [min |-> 1, max |-> 3, avg |-> [num |-> 6, den |-> 3]]
    /\ seen # {}
    /\ Recorded("unique_solutions").total = Cardinality(seen)

\* the solutions entry holds the least, the greatest and the mean of the
\* ants' tour weights, and the weight of the best tour
IsSolutionSummaryOf(e, sols, best) ==
    /\ e.best = Some(SeqMin(Distances(sols)))
    /\ e.worst = Some(SeqMax(Distances(sols)))
    /\ e.avg[1].den # 0
    /\ e.avg[1].num * Len(sols) = SeqSum(Distances(sols)) * e.avg[1].den
    /\ e.global_best = Some(best.weight)
    /\ e.best[1] * e.avg[1].den <= e.avg[1].num
    /\ e.avg[1].num <= e.worst[1] * e.avg[1].den

\* C11: for every non-empty population, ants with the same solution
\* included, on_iteration records best = least weight, worst = greatest
\* weight, avg = sum of all ants' weights / number of ants, and
\* global_best = state.best.weight, so best <= avg <= worst.
C11_SolutionStats ==
    Succeeded("stat_iteration") =>
        IsSolutionSummaryOf(Recorded("solutions"), last.solutions, last.best)

\* C19: an on_iteration call that raises leaves the seen set and every
\* series as they were, so the seen set has as many elements as the last
\* recorded total says.
C19_AllOrNothing ==
    /\ (last.op = "stat_iteration" /\ last.raised) =>
            seen = preSeen /\ stats = preStats
    /\ "unique_solutions" \in DOMAIN stats =>
            Cardinality(seen) = Recorded("unique_solutions").total

(* ----------------------------- DarwinPlugin ----------------------------- *)
\* the ants' parameters are exact fractions num / den with den > 0, kept in
\* lowest terms; the rounding and the overflow of floats are left out
Abs(x) == IF x < 0 THEN 0 - x ELSE x

RECURSIVE GCD(_, _)
GCD(a, b) == IF b = 0 THEN a ELSE GCD(b, a % b)

Rat(n, d) ==
    LET g == GCD(Abs(n), d) IN [num |-> n \div g, den |-> d \div g]

RatInt(n) == [num |-> n, den |-> 1]

RatAdd(a, b) == Rat(a.num * b.den + b.num * a.den, a.den * b.den)

\* a / n for an integer n > 0
RatOver(a, n) == Rat(a.num, a.den * n)

RatLeq(a, b) == a.num * b.den <= b.num * a.den

RECURSIVE RatSum(_)
RatSum(s) == IF s = <<>> THEN RatInt(0) ELSE RatAdd(Head(s), RatSum(Tail(s)))

\* sum(ant.alpha for ant in state.ants) / size, for size > 0
Mean(values) == RatOver(RatSum(values), Len(values))

\* alpha = (self.alpha + state.best.alpha) / 2
DarwinCentre_sum(mean, best) == RatAdd(mean, RatInt(best))

DarwinCentre(mean, best) == RatOver(RatAdd(mean, RatInt(best)), 2)

\* random.gauss(mu, sigma) is mu + z * sigma for a standard normal deviate z
Deviates == {0 - 1, 1}

Gauss(mu, sg, z) == RatAdd(mu, RatInt(z * sg))

Params == 1..MaxParam

DarwinOnStart ==
    /\ calls < MaxDarwinCalls
    /\ IF Len(ants) = 0
       THEN /\ last' = [op |-> "darwin_start", raised |-> TRUE,
                        fired |-> FALSE, error |-> "ZeroDivisionError"]
            /\ UNCHANGED <<dAlpha, dBeta>>
       ELSE /\ dAlpha' = Some(Mean([i \in DOMAIN ants |-> ants[i].alpha]))
            /\ dBeta' = Some(Mean([i \in DOMAIN ants |-> ants[i].beta]))
            /\ last' = [op |-> "darwin_start", raised |-> FALSE,
                        fired |-> FALSE]
    /\ calls' = calls + 1
    /\ UNCHANGED <<sigma, ants, graphVars, periodicVars, eliteVars, statVars,
                   printoutVars, extraAttrs, pre>>

DarwinOnIteration(best, zs) ==
    /\ calls < MaxDarwinCalls
    /\ IF dAlpha = None
       THEN /\ last' = [op |-> "darwin_iteration", raised |-> TRUE,
                        fired |-> FALSE, error |-> "AttributeError"]
            /\ UNCHANGED ants
       ELSE LET alpha == DarwinCentre(dAlpha[1], best.alpha)
                beta == DarwinCentre(dBeta[1], best.beta)
            IN  /\ ants' = [i \in DOMAIN ants |->
                               [alpha |-> Gauss(alpha, sigma, zs[i][1]),
                                beta |-> Gauss(beta, sigma, zs[i][2])]]
                /\ last' = [op |-> "darwin_iteration", raised |-> FALSE,
                            fired |-> FALSE, best |-> best,
                            centre |-> [alpha |-> alpha, beta |-> beta]]
    /\ calls' = calls + 1
    /\ UNCHANGED <<sigma, dAlpha, dBeta, graphVars, periodicVars, eliteVars,
                   statVars, printoutVars, extraAttrs, pre>>

Colonies ==
    UNION {[1..n -> [alpha : {RatInt(a) : a \in Params},
                     beta : {RatInt(b) : b \in Params}]] : n \in 0..MaxColony}

InitDarwin ==
    /\ sigma \in 0..MaxSigma
    /\ ants \in Colonies
    /\ dAlpha = None
    /\ dBeta = None
    /\ ph = <<>>
    /\ weight = <<>>
    /\ kind = "reset"
    /\ period = 1
    /\ index = None
    /\ q = 1
    /\ factor = 1
    /\ qBound = 1
    /\ stats = NoStats
    /\ seen = {}
    /\ preStats = NoStats
    /\ preSeen = {}
    /\ pIteration = None
    /\ pBestCount = None
    /\ pWidth = None
    /\ output = <<>>
    /\ history = <<>>
    /\ extraAttrs = {}
    /\ calls = 0
    /\ firedAt = {}
    /\ last = NoCall
    /\ last2 = NoCall
    /\ pre = <<>>
    /\ pre2 = <<>>

NextDarwin ==
    \/ DarwinOnStart
    \/ \E best \in [alpha : Params, beta : Params] :
          \E zs \in [DOMAIN ants -> Deviates \X Deviates] :
             DarwinOnIteration(best, zs)

SpecDarwin == InitDarwin /\ [][NextDarwin]_vars

\* C12: after a successful on_iteration the centre of the resampling is the
\* midpoint of the tracked mean and the best solution's parameter, so it
\* lies between the two; with sigma = 0 every ant's alpha and beta equal it.
C12_DarwinMidpoint ==
    Succeeded("darwin_iteration") =>
        LET c == last.centre
            Mid(x, m, b) ==
                /\ RatAdd(x, x) = RatAdd(m, RatInt(b))
                /\ \/ RatLeq(m, x) /\ RatLeq(x, RatInt(b))
                   \/ RatLeq(RatInt(b), x) /\ RatLeq(x, m)
        IN  /\ Mid(c.alpha, dAlpha[1], last.best.alpha)
            /\ Mid(c.beta, dBeta[1], last.best.beta)
            /\ sigma = 0 =>
                   \A i \in DOMAIN ants :
                       ants[i].alpha = c.alpha /\ ants[i].beta = c.beta

C12_Witness ==
    /\ Succeeded("darwin_iteration")
    /\ sigma = 0
    /\ dAlpha = Some(RatInt(1))
    /\ last.best.alpha = 2
    /\ Len(ants) = 1
    /\ ants[1].alpha = [num |-> 3, den |-> 2]

\* C13: on_start with no ants, and StatRecorder.on_iteration with no
\* solutions, raise an error named for the empty population and store
\* nothing.
C13_EmptyPopulation ==
    /\ (last.op = "darwin_start" /\ Len(ants) = 0) =>
            /\ last.raised /\ last.error = "EmptyPopulation"
            /\ dAlpha = None /\ dBeta = None
    /\ (last.op = "stat_iteration" /\ Len(last.solutions) = 0) =>
            /\ last.raised /\ last.error = "EmptyPopulation"
            /\ stats = preStats

(* ------------------- StatRecorder: presentation stage ------------------ *)
\* An attribute name is the sequence of the words that '_' separates in it.
\* the metric names that are asked for, recorded or not
PlotNames == {"solutions", "unique_solutions", "ant_distances", "foo", ""}

Words(stat) ==
    CASE stat = "solutions" -> <<"solutions">>
      [] stat = "unique_solutions" -> <<"unique", "solutions">>
      [] stat = "ant_distances" -> <<"ant", "distances">>
      [] stat = "foo" -> <<"foo">>
      [] stat = "" -> <<"">>

Unwords(ws) == CHOOSE stat \in PlotNames : Words(stat) = ws

\* f'{prefix}_{stat}'
AttrName(prefix, stat) == <<prefix>> \o Words(stat)

\* name.startswith('plot_')
StartsWithPlot(name) == Len(name) >= 2 /\ name[1] = "plot"

\* __, stat = name.split('_', 1)
StatOfName(name) == Unwords(Tail(name))

\* the attributes that normal lookup finds on a StatRecorder
ClassAttrs == {<<"extract", "ant", "distances">>, <<"plot">>, <<"pump">>,
               <<"on", "start">>, <<"on", "iteration">>, <<"on", "finish">>,
               <<"stats">>, <<"data">>}

\* the extractors and processors a subclass may add
Overrides == {AttrName("extract", "solutions"), AttrName("process", "solutions"),
              AttrName("process", "unique_solutions")}

\* the two lambdas of _extract_and_process
DefaultAttr == <<"default">>

\* attribute access: normal lookup, then __getattr__
GetAttr(attrs, name) ==
    IF name \in ClassAttrs \cup attrs
    THEN [kind |-> "method", name |-> name]
    ELSE IF StartsWithPlot(name)
         THEN [kind |-> "partial", name |-> name]
         ELSE [kind |-> "missing", name |-> name]

\* getattr(self, name, default)
Lookup_strict(attrs, name) == GetAttr(attrs, name)

Lookup(attrs, name) ==
    IF GetAttr(attrs, name).kind = "missing"
    THEN [kind |-> "default", name |-> DefaultAttr]
    ELSE GetAttr(attrs, name)

\* self.stats[stat] on the defaultdict: a missing key is created empty
Touch(st, stat) == [k \in DOMAIN st \cup {stat} |-> Series(st, k)]

\* extract_ant_distances: every complete row is sorted
AntDistances(st) ==
    LET rows == Series(st, "ant_distances")
    IN  [i \in DOMAIN rows |->
            IF \A j \in DOMAIN rows[i] : rows[i][j] # None
            THEN SortSeq(rows[i], LAMBDA a, b : a[1] < b[1])
            ELSE rows[i]]

\* what the extractor e returns for stat, and the stats it leaves
Extracted(st, stat, e) ==
    CASE e.kind = "default" -> Series(st, stat)
      [] e.name = AttrName("extract", "ant_distances") -> AntDistances(st)
      [] OTHER -> <<e.name>>

StatsAfter(st, stat, e) ==
    CASE e.kind = "default" -> Touch(st, stat)
      [] e.name = AttrName("extract", "ant_distances") ->
            Touch(st, "ant_distances")
      [] OTHER -> st

\* _extract_and_process(stat): the call record, without the op
ExtractAndProcessResult(attrs, st, stat) ==
    LET extractor == Lookup(attrs, AttrName("extract", stat))
        processor == Lookup(attrs, AttrName("process", stat))
    IN  IF "missing" \in {extractor.kind, processor.kind}
        THEN [raised |-> TRUE, fired |-> FALSE, error |-> "AttributeError",
              stat |-> stat]
        ELSE [raised |-> FALSE, fired |-> FALSE, stat |-> stat,
              extractor |-> extractor.name, processor |-> processor.name,
              data |-> Extracted(st, stat, extractor)]

ExtractAndProcessStats(attrs, st, stat) ==
    LET extractor == Lookup(attrs, AttrName("extract", stat))
    IN  IF ExtractAndProcessResult(attrs, st, stat).raised
        THEN st
        ELSE StatsAfter(st, stat, extractor)

WithOp(r, op, m) ==
    [k \in DOMAIN r \cup {"op", "metric"} |->
        IF k = "op" THEN op ELSE IF k = "metric" THEN m ELSE r[k]]

PlotFrame ==
    UNCHANGED <<graphVars, periodicVars, eliteVars, darwinVars, printoutVars,
                extraAttrs, seen, preSeen, calls, pre>>

\* recorder._extract_and_process(m)
ExtractAndProcess(m) ==
    /\ last' = WithOp(ExtractAndProcessResult(extraAttrs, stats, m),
                      "extract_and_process", m)
    /\ stats' = ExtractAndProcessStats(extraAttrs, stats, m)
    /\ preStats' = stats
    /\ PlotFrame

\* recorder.plot_<m>(): __getattr__ and _plot up to the drawing
PlotAccess(m) ==
    LET a == GetAttr(extraAttrs, AttrName("plot", m))
    IN  /\ IF a.kind = "partial"
           THEN /\ last' = WithOp(ExtractAndProcessResult(extraAttrs, stats,
                                                          StatOfName(a.name)),
                                  "plot", m)
                /\ stats' = ExtractAndProcessStats(extraAttrs, stats,
                                                   StatOfName(a.name))
           ELSE /\ last' = [op |-> "plot", metric |-> m, raised |-> TRUE,
                            fired |-> FALSE, error |-> "AttributeError"]
                /\ UNCHANGED stats
        /\ preStats' = stats
        /\ PlotFrame

\* recorder.extract_ant_distances()
ExtractAntDistances ==
    /\ last' = [op |-> "extract_ant_distances", raised |-> FALSE,
                fired |-> FALSE, data |-> AntDistances(stats)]
    /\ stats' = Touch(stats, "ant_distances")
    /\ preStats' = stats
    /\ PlotFrame

InitPlot ==
    /\ ph = <<1, 2, 3>>
    /\ weight = GraphWeights(Len(ph))
    /\ kind = "PeriodicActionPlugin"
    /\ period = 1
    /\ index = None
    /\ q = 1
    /\ factor = 1
    /\ qBound = q
    /\ stats = NoStats
    /\ seen = {}
    /\ preStats = NoStats
    /\ preSeen = {}
    /\ sigma = 0
    /\ dAlpha = None
    /\ dBeta = None
    /\ ants = <<>>
    /\ pIteration = None
    /\ pBestCount = None
    /\ pWidth = None
    /\ output = <<>>
    /\ history = <<>>
    /\ extraAttrs \in SUBSET Overrides
    /\ calls = 0
    /\ firedAt = {}
    /\ last = NoCall
    /\ last2 = NoCall
    /\ pre = ph
    /\ pre2 = ph

NextPlot ==
    \/ StatOnStart
    \/ \E m \in PlotNames : ExtractAndProcess(m)
    \/ \E m \in PlotNames : PlotAccess(m)
    \/ ExtractAntDistances

SpecPlot == InitPlot /\ [][NextPlot]_vars

\* C16: a plot_m request never raises; it runs for the metric m, with the
\* extractor named for m if one is defined and else the default one, which
\* returns the recorded series of m, and with the processor named for m if
\* one is defined and else the default one, each stage on its own.
C16_PlotDispatch ==
    last.op = "plot" =>
        LET m == last.metric
            defined == ClassAttrs \cup extraAttrs
        IN  /\ ~last.raised
            /\ last.stat = m
            /\ IF AttrName("extract", m) \in defined
               THEN last.extractor = AttrName("extract", m)
               ELSE /\ last.extractor = DefaultAttr
                    /\ last.data = Series(preStats, m)
            /\ IF AttrName("process", m) \in defined
               THEN last.processor = AttrName("process", m)
               ELSE last.processor = DefaultAttr

C16_Witness ==
    /\ last.op = "plot" /\ ~last.raised
    /\ last.metric = "unique_solutions"
    /\ last.stat = "unique_solutions"
    /\ last.extractor = DefaultAttr
    /\ Len(last.data) = 2
    /\ last.processor = <<"process", "unique", "solutions">>
    /\ AttrName("extract", "solutions") \in extraAttrs

\* C18: extraction for any metric name, recorded or not, leaves stats with
\* the same metric names and the same series.
C18_ExtractionKeepsStats ==
    last.op \in {"plot", "extract_and_process", "extract_ant_distances"} =>
        stats = preStats

(* ---------------------------- PrintoutPlugin --------------------------- *)
\* A printed text is the sequence of its characters.
DigitChars == <<"0", "1", "2", "3", "4", "5", "6", "7", "8", "9">>

RECURSIVE Digits(_)
Digits(n) ==
    IF n < 10 THEN <<DigitChars[n + 1]>>
    ELSE Digits(n \div 10) \o <<DigitChars[(n % 10) + 1]>>

Spaces(n) == [i \in 1..n |-> " "]

\* f'{n: {w}d}': a space for the sign, then the digits, right-aligned in w
Format(n, w) ==
    LET d == <<" ">> \o Digits(n)
    IN  Spaces(IF w > Len(d) THEN w - Len(d) ELSE 0) \o d

\* report = f'{self.iteration: {self.width}d}'
Report_after(i, w) == Format(i + 1, w)

Report(i, w) == Format(i, w)

\* report += f' {self.best_count: {self.width}d} \t{state.best}'
BestReport(count, w) == <<" ">> \o Format(count, w) \o <<" ", "\t", "best">>

\* math.ceil(math.log10(limit)) for limit >= 1
RECURSIVE CeilLog10From(_, _, _)
CeilLog10From(limit, k, power) ==
    IF power >= limit THEN k ELSE CeilLog10From(limit, k + 1, power * 10)

CeilLog10(limit) == CeilLog10From(limit, 0, 1)

Limits == 0..MaxLimit

PrintoutFrame ==
    UNCHANGED <<graphVars, periodicVars, eliteVars, statVars, darwinVars,
                extraAttrs, pre>>

PrintoutInitialize ==
    /\ calls < MaxPrintCalls
    /\ calls' = calls + 1
    /\ pIteration' = Some(0)
    /\ pBestCount' = Some(0)
    /\ pWidth' = None
    /\ output' = <<>>
    /\ history' = <<>>
    /\ last' = [op |-> "print_initialize", raised |-> FALSE, fired |-> FALSE]
    /\ PrintoutFrame

\* on_start(state); math.log10 raises ValueError for limit <= 0
PrintoutOnStart(limit) ==
    /\ calls < MaxPrintCalls
    /\ calls' = calls + 1
    /\ IF limit <= 0
       THEN /\ UNCHANGED pWidth
            /\ last' = [op |-> "print_start", raised |-> TRUE,
                        fired |-> FALSE, error |-> "ValueError"]
       ELSE /\ pWidth' = Some(CeilLog10(limit) + 2)
            /\ last' = [op |-> "print_start", raised |-> FALSE,
                        fired |-> FALSE]
    /\ UNCHANGED <<pIteration, pBestCount, output, history>>
    /\ PrintoutFrame

\* on_iteration(state, is_new_best); the format raises before anything is
\* counted when self.iteration is unset or self.width is None
PrintoutOnIteration(is_new_best) ==
    /\ calls < MaxPrintCalls
    /\ calls' = calls + 1
    /\ IF pIteration = None \/ pWidth = None
       THEN /\ UNCHANGED <<pIteration, pBestCount, output>>
            /\ history' = Append(history, [best |-> is_new_best, ok |-> FALSE])
            /\ last' = [op |-> "print_iteration", raised |-> TRUE,
                        fired |-> FALSE,
                        error |-> IF pIteration = None THEN "AttributeError"
                                  ELSE "ValueError"]
       ELSE LET report == Report(pIteration[1], pWidth[1]) IN
            /\ pIteration' = Some(pIteration[1] + 1)
            /\ IF is_new_best
               THEN /\ pBestCount' = Some(pBestCount[1] + 1)
                    /\ output' = Append(output,
                          [report |-> report \o
                                      BestReport(pBestCount[1] + 1, pWidth[1]),
                           end |-> "\n"])
               ELSE /\ UNCHANGED pBestCount
                    /\ output' = Append(output,
                                        [report |-> report, end |-> "\r"])
            /\ history' = Append(history, [best |-> is_new_best, ok |-> TRUE])
            /\ last' = [op |-> "print_iteration", raised |-> FALSE,
                        fired |-> FALSE]
    /\ UNCHANGED pWidth
    /\ PrintoutFrame

InitPrintout ==
    /\ ph = <<>>
    /\ weight = <<>>
    /\ kind = "PeriodicActionPlugin"
    /\ period = 1
    /\ index = None
    /\ q = 1
    /\ factor = 1
    /\ qBound = q
    /\ stats = NoStats
    /\ seen = {}
    /\ preStats = NoStats
    /\ preSeen = {}
    /\ OthersIdle
    /\ calls = 0
    /\ firedAt = {}
    /\ last = NoCall
    /\ last2 = NoCall
    /\ pre = <<>>
    /\ pre2 = <<>>

NextPrintout ==
    \/ PrintoutInitialize
    \/ \E limit \in Limits : PrintoutOnStart(limit)
    \/ \E is_new_best \in BOOLEAN : PrintoutOnIteration(is_new_best)

SpecPrintout == InitPrintout /\ [][NextPrintout]_vars

\* the number a printed line starts with, after its leading spaces
DigitValue(c) == (CHOOSE i \in DOMAIN DigitChars : DigitChars[i] = c) - 1

RECURSIVE ReadNumber(_, _)
ReadNumber(text, acc) ==
    IF text = <<>> \/ Head(text) \notin Range(DigitChars) THEN acc
    ELSE ReadNumber(Tail(text), acc * 10 + DigitValue(Head(text)))

RECURSIVE ShownIndex(_)
ShownIndex(text) ==
    IF text # <<>> /\ Head(text) = " " THEN ShownIndex(Tail(text))
    ELSE IF text = <<>> \/ Head(text) \notin Range(DigitChars) THEN 0 - 1
    ELSE ReadNumber(text, 0)

\* the counters and the lines are those of the calls cs
CountsCalls(cs) ==
    /\ pIteration[1] = Len(cs)
    /\ pBestCount[1] = Len(SelectSeq(cs, LAMBDA c : c.best))
    /\ pBestCount[1] <= pIteration[1]
    /\ Len(output) = Len(cs)
    /\ \A k \in DOMAIN output :
          /\ ShownIndex(output[k].report) = k - 1
          /\ output[k].end = (IF cs[k].best THEN "\n" ELSE "\r")

\* C17: after initialize and any on_iteration calls, iteration is the number
\* of calls made, best_count the number of them with is_new_best, and the
\* k-th call printed one line showing k-1, ended by a newline if
\* is_new_best and by a carriage return if not.
C17_PrintoutCounts ==
    pIteration # None => CountsCalls(history)

\* C17 amended: the same for the on_iteration calls made once on_start has
\* set the width from a limit >= 1; a call made between initialize and
\* on_start raises, counts nothing and prints nothing, and from the first
\* call that completes every call completes.
C17_PrintoutCountsStarted ==
    /\ pIteration # None =>
          /\ CountsCalls(SelectSeq(history, LAMBDA c : c.ok))
          /\ \A i, j \in DOMAIN history :
                (i < j /\ history[i].ok) => history[j].ok
    /\ last.op = "print_iteration" =>
          (last.raised <=> (pIteration = None \/ pWidth = None))

C17_Witness ==
    /\ last.op = "print_iteration" /\ ~last.raised
    /\ pWidth = Some(4)
    /\ pIteration = Some(2)
    /\ pBestCount = Some(1)
    /\ history = <<[best |-> TRUE, ok |-> TRUE], [best |-> FALSE, ok |-> TRUE]>>
    /\ output[1].end = "\n"
    /\ output[2] = [report |-> <<" ", " ", " ", "1">>, end |-> "\r"]

=============================================================================
